---- MODULE Spec2Model ----
(***************************************************************************)
(* Model of the upscaler command line tool: path resolution, model and     *)
(* device selection, and the batch loop of main.                           *)
(*                                                                         *)
(* A file name is a sequence of one-character strings, a path a sequence   *)
(* of names, so that pathlib's suffix, stem and with_suffix, str.lower and *)
(* the ordering used by sorted() are computed, not assumed.                *)
(***************************************************************************)
EXTENDS Integers, Sequences, FiniteSets, TLC

VARIABLES
    args,       \* the argparse Namespace
    inputKind,  \* what args.input names on disk: "absent", "file" or "dir"
    entries,    \* the names input_path.iterdir() yields
    hw,         \* torch.cuda.is_available(), torch.backends.mps.is_available()
    pc,         \* position of the running function
    stdout,     \* the lines printed so far (the kind of each line)
    exitCode,   \* process exit status, -1 while running
    setupLog,   \* the steps of setup_model taken so far
    frame,      \* the local names of the running setup_model
    cache,      \* the file names present in the weights directory
    engine,     \* what setup_model built (NoEngine before)
    error,      \* the exception that left setup_model, "none" otherwise
    created,    \* the directories mkdir has created
    pairs,      \* the list resolve_paths returned
    i,          \* enumerate index of the batch loop (1-based)
    success,    \* main's success counter
    failed,     \* main's failed counter
    trace,      \* per attempted item, in order: its index and how it ended
    written,    \* the destinations cv2.imwrite produced
    calls,      \* the engine calls of the enhance step, in order
    runs,       \* the runs inside fetch_model_weights: position, URL, outcome
    weightsDir, \* whether the weights directory exists
    partial,    \* the cache files some run is still writing
    fetched,    \* the downloads started, in order
    dn          \* the running denoise_image: position, locals, result

vars == <<args, inputKind, entries, hw, pc, stdout, exitCode, setupLog,
          frame, cache, engine, error, created, pairs, i, success, failed,
          trace, written, calls, runs, weightsDir, partial, fetched, dn>>

-----------------------------------------------------------------------------
(* Bounds *)

MaxEntries == 3     \* largest input directory explored by the whole-run model
MaxListing == 4     \* largest input directory explored by the resolver model
NumRuns == 2        \* runs that call fetch_model_weights at the same time
MaxDim == 3         \* largest image width and height given to denoise_image

-----------------------------------------------------------------------------
(* Characters and strings *)

\* The characters in use, in ascending code point order.
CharOrder == <<".", "B", "G", "J", "N", "P", "_",
               "a", "b", "c", "d", "e", "f", "g", "i", "j", "l",
               "m", "n", "o", "p", "r", "s", "t", "u", "x">>

Ord(c) == CHOOSE k \in 1..Len(CharOrder) : CharOrder[k] = c

\* str.lower() on one character.
LowerChar(c) ==
    CASE c = "B" -> "b"
      [] c = "G" -> "g"
      [] c = "J" -> "j"
      [] c = "N" -> "n"
      [] c = "P" -> "p"
      [] OTHER -> c

Lower(s) == [k \in 1..Len(s) |-> LowerChar(s[k])]

\* Python's str ordering: lexicographic by code point, a proper prefix first.
RECURSIVE StrLess(_, _)
StrLess(a, b) ==
    IF b = <<>> THEN FALSE
    ELSE IF a = <<>> THEN TRUE
    ELSE IF a[1] # b[1] THEN Ord(a[1]) < Ord(b[1])
    ELSE StrLess(Tail(a), Tail(b))

\* str.rfind("."), 1-based, 0 when there is no dot.
LastDot(name) ==
    LET dots == {k \in 1..Len(name) : name[k] = "."}
    IN IF dots = {} THEN 0 ELSE CHOOSE k \in dots : \A m \in dots : m <= k

\* PurePath.suffix: the last dot and what follows, unless the dot is the
\* first or the last character of the name.
Suffix(name) ==
    LET d == LastDot(name)
    IN IF 1 < d /\ d < Len(name) THEN SubSeq(name, d, Len(name)) ELSE <<>>

\* PurePath.stem
Stem(name) ==
    LET d == LastDot(name)
    IN IF 1 < d /\ d < Len(name) THEN SubSeq(name, 1, d - 1) ELSE name

\* Path.parent, Path.name and the / operator.
Parent(p) == SubSeq(p, 1, Len(p) - 1)
Name(p)   == p[Len(p)]
Join(p, n) == Append(p, n)

\* PurePath.with_suffix: the old suffix, if any, is cut off the name.
WithSuffix(p, suffix) ==
    LET old == Suffix(Name(p))
        base == SubSeq(Name(p), 1, Len(Name(p)) - Len(old))
    IN Join(Parent(p), base \o suffix)

\* Path.mkdir(parents=True, exist_ok=True): the directory and its ancestors.
Mkdir(p) == {SubSeq(p, 1, k) : k \in 1..Len(p)}

-----------------------------------------------------------------------------
(* Values *)

png  == <<"p", "n", "g">>
jpg  == <<"j", "p", "g">>
auto == <<"a", "u", "t", "o">>

IMAGE_EXTENSIONS ==
    { <<".", "p", "n", "g">>, <<".", "j", "p", "g">>,
      <<".", "j", "p", "e", "g">>, <<".", "w", "e", "b", "p">>,
      <<".", "b", "m", "p">>, <<".", "t", "i", "f", "f">> }

DefaultSuffix == <<"_", "u", "p", "s", "c", "a", "l", "e", "d">>

a_png   == <<"a", ".", "p", "n", "g">>
b_jpg   == <<"b", ".", "j", "p", "g">>
c_gif   == <<"c", ".", "g", "i", "f">>
B_PNG   == <<"B", ".", "P", "N", "G">>
a_b_bmp == <<"a", ".", "b", ".", "b", "m", "p">>
dot_png == <<".", "p", "n", "g">>
ab      == <<"a", "b">>
d_Jpeg  == <<"d", ".", "J", "p", "e", "g">>

in_dir  == << <<"i", "n">> >>
out_dir == << <<"o", "u", "t">> >>

r_png   == <<"r", ".", "p", "n", "g">>
r_bare  == <<"r">>
r_x_bmp == <<"r", ".", "x", ".", "b", "m", "p">>

NoPairs == << <<>> >>       \* resolve_paths has not returned yet
NoEngine == [built |-> FALSE]
Unbound == [bound |-> FALSE]    \* a local name no branch has assigned
None == -1                      \* args.gpu_id when --gpu-id is omitted

\* The exception classes the steps raise; all derive from Exception.
ExceptionClasses == {"ValueError", "cv2.error", "RuntimeError"}

-----------------------------------------------------------------------------
(* resolve_paths and its helpers *)

\* sorted(input_path.iterdir()): the names in ascending order.
RECURSIVE Sorted(_)
Sorted(S) ==
    IF S = {} THEN <<>>
    ELSE LET least == CHOOSE n \in S : \A m \in S \ {n} : StrLess(n, m)
         IN <<least>> \o Sorted(S \ {least})

ResolveExtension(fmt, source_path) ==
    IF fmt = auto THEN Suffix(Name(source_path)) ELSE <<".">> \o fmt

\* A format override that is added after the extension the caller gave.
ApplyFormatAppends(output_path, fmt, source_path) ==
    IF fmt = auto THEN output_path
    ELSE Join(Parent(output_path), Name(output_path) \o <<".">> \o fmt)

ApplyFormat(output_path, fmt, source_path) ==
    IF fmt = auto THEN output_path ELSE WithSuffix(output_path, <<".">> \o fmt)

\* An extension test that forgets to lower-case.
IsImageCaseSensitive(name) == Suffix(name) \in IMAGE_EXTENSIONS

IsImage(name) == Lower(Suffix(name)) \in IMAGE_EXTENSIONS

\* The body of the directory loop for one surviving entry.
DirPair(a, name) ==
    LET img_file == Join(a.input, name)
        stem == Stem(name) \o a.suffix
        ext == ResolveExtension(a.format, img_file)
    IN <<img_file, Join(a.output, stem \o ext)>>

DirPairs(a, names) ==
    LET kept == SelectSeq(Sorted(names), IsImage)
    IN [k \in 1..Len(kept) |-> DirPair(a, kept[k])]

FilePairs(a) == << <<a.input, ApplyFormat(a.output, a.format, a.input)>> >>

-----------------------------------------------------------------------------
(* setup_model of models.py, statement by statement *)

\* A selection that builds the anime network at the requested scale.
ModelsSelectAnimeAtScale(a) ==
    IF a.model = "general" /\ a.scale = 4
    THEN [bound |-> TRUE, model_name |-> "RealESRGAN_x4plus",
          num_feat |-> 64, num_block |-> 23, num_grow_ch |-> 32,
          scale |-> 4, netscale |-> 4,
          url |-> <<"Real-ESRGAN", "v0.1.0", "RealESRGAN_x4plus.pth">>]
    ELSE IF a.model = "general" /\ a.scale = 2
    THEN [bound |-> TRUE, model_name |-> "RealESRGAN_x2plus",
          num_feat |-> 64, num_block |-> 23, num_grow_ch |-> 32,
          scale |-> 2, netscale |-> 2,
          url |-> <<"Real-ESRGAN", "v0.2.1", "RealESRGAN_x2plus.pth">>]
    ELSE IF a.model = "anime"
    THEN [bound |-> TRUE, model_name |-> "RealESRGAN_x4plus_anime_6B",
          num_feat |-> 64, num_block |-> 6, num_grow_ch |-> 32,
          scale |-> a.scale, netscale |-> a.scale,
          url |-> <<"Real-ESRGAN", "v0.2.2.4",
                    "RealESRGAN_x4plus_anime_6B.pth">>]
    ELSE Unbound

\* The if/elif chain over (args.model, args.scale); it has no else branch.
ModelsSelect(a) ==
    IF a.model = "general" /\ a.scale = 4
    THEN [bound |-> TRUE, model_name |-> "RealESRGAN_x4plus",
          num_feat |-> 64, num_block |-> 23, num_grow_ch |-> 32,
          scale |-> 4, netscale |-> 4, url |-> <<"Real-ESRGAN", "v0.1.0", "RealESRGAN_x4plus.pth">>]
    ELSE IF a.model = "general" /\ a.scale = 2
    THEN [bound |-> TRUE, model_name |-> "RealESRGAN_x2plus",
          num_feat |-> 64, num_block |-> 23, num_grow_ch |-> 32,
          scale |-> 2, netscale |-> 2, url |-> <<"Real-ESRGAN", "v0.2.1", "RealESRGAN_x2plus.pth">>]
    ELSE IF a.model = "anime"
    THEN [bound |-> TRUE, model_name |-> "RealESRGAN_x4plus_anime_6B",
          num_feat |-> 64, num_block |-> 6, num_grow_ch |-> 32,
          scale |-> 4, netscale |-> 4,
          url |-> <<"Real-ESRGAN", "v0.2.2.4",
                    "RealESRGAN_x4plus_anime_6B.pth">>]
    ELSE Unbound

\* A ladder without the MPS rung, as in upscale.py.
ModelsDeviceNoMps(a, h) ==
    IF h.cuda
    THEN [device |-> [type |-> "cuda", index |-> a.gpu_id], use_half |-> TRUE]
    ELSE [device |-> [type |-> "cpu", index |-> None], use_half |-> FALSE]

\* The device ladder: CUDA, then MPS, then CPU.
ModelsDevice(a, h) ==
    IF h.cuda
    THEN [device |-> [type |-> "cuda", index |-> a.gpu_id], use_half |-> TRUE]
    ELSE IF h.mps
    THEN [device |-> [type |-> "mps", index |-> None], use_half |-> FALSE]
    ELSE [device |-> [type |-> "cpu", index |-> None], use_half |-> FALSE]

\* RealESRGANer(...) as both setup_model functions call it.
Upsampler(cfg, a, dev, weights) ==
    [scale |-> cfg.netscale, model_path |-> weights,
     model |-> [num_feat |-> cfg.num_feat, num_block |-> cfg.num_block,
                num_grow_ch |-> cfg.num_grow_ch, scale |-> cfg.scale],
     tile |-> a.tile, tile_pad |-> 10, pre_pad |-> 0,
     half |-> dev.use_half, device |-> dev.device]

\* fetch_model_weights: the cache file of a URL is named by its basename.
WEIGHTS_DIR == "weights"
WeightsPath(url) == <<WEIGHTS_DIR, url[Len(url)]>>

GFPGAN_URL == <<"GFPGAN", "v1.3.0", "GFPGANv1.3.pth">>

FaceEnhancer(a, weights, upsampler) ==
    [bound |-> TRUE, model_path |-> weights, upscale |-> a.scale,
     arch |-> "clean", channel_multiplier |-> 2, bg_upsampler |-> upsampler]

NoFrame == [cfg |-> Unbound, dev |-> Unbound, cached_weights |-> <<>>,
            upsampler |-> Unbound, face_enhancer |-> Unbound]

Line(kind) == [kind |-> kind]

\* An exception leaves setup_model.
SetupRaises(e) ==
    /\ error' = e
    /\ pc' = "m_raised"
    /\ UNCHANGED <<frame, cache, setupLog, stdout, engine>>

\* lines 10-40
MSelect ==
    /\ pc = "m_select"
    /\ frame' = [frame EXCEPT !.cfg = ModelsSelect(args)]
    /\ setupLog' = Append(setupLog, "select")
    /\ pc' = "m_device"
    /\ UNCHANGED <<args, inputKind, entries, hw, stdout, exitCode, cache,
                   engine, error, created, pairs, i, success, failed, trace,
                   written>>
    /\ UNCHANGED <<calls, runs, weightsDir, partial, fetched, dn>>

\* lines 42-50
MDevice ==
    /\ pc = "m_device"
    /\ frame' = [frame EXCEPT !.dev = ModelsDevice(args, hw)]
    /\ setupLog' = Append(setupLog, "device")
    /\ pc' = "m_fetch"
    /\ UNCHANGED <<args, inputKind, entries, hw, stdout, exitCode, cache,
                   engine, error, created, pairs, i, success, failed, trace,
                   written>>
    /\ UNCHANGED <<calls, runs, weightsDir, partial, fetched, dn>>

\* line 52: reading url fails when no branch bound it; otherwise the
\* checkpoint is downloaded unless its cache file is there.
MFetch ==
    /\ pc = "m_fetch"
    /\ IF ~frame.cfg.bound
       THEN SetupRaises("UnboundLocalError")
       ELSE \E downloads \in BOOLEAN :
              LET file == frame.cfg.url[Len(frame.cfg.url)]
              IN IF file \notin cache /\ ~downloads
                 THEN /\ error' = "URLError"
                      /\ pc' = "m_raised"
                      /\ setupLog' = Append(setupLog, "fetch")
                      /\ UNCHANGED <<frame, cache, stdout, engine>>
                 ELSE /\ cache' = cache \cup {file}
                      /\ frame' = [frame EXCEPT !.cached_weights =
                                                   WeightsPath(frame.cfg.url)]
                      /\ setupLog' = Append(setupLog, "fetch")
                      /\ pc' = "m_build"
                      /\ UNCHANGED <<stdout, engine, error>>
    /\ UNCHANGED <<args, inputKind, entries, hw, exitCode, created, pairs, i,
                   success, failed, trace, written>>
    /\ UNCHANGED <<calls, runs, weightsDir, partial, fetched, dn>>

\* lines 53-62
MBuild ==
    /\ pc = "m_build"
    /\ \E loads \in BOOLEAN :
         IF loads
         THEN /\ frame' = [frame EXCEPT !.upsampler =
                   [bound |-> TRUE,
                    eng |-> Upsampler(frame.cfg, args, frame.dev,
                                      frame.cached_weights)]]
              /\ setupLog' = Append(setupLog, "build")
              /\ pc' = IF args.face_enhance THEN "m_face" ELSE "m_return"
              /\ UNCHANGED <<cache, stdout, engine, error>>
         ELSE SetupRaises("RuntimeError")
    /\ UNCHANGED <<args, inputKind, entries, hw, exitCode, created, pairs, i,
                   success, failed, trace, written>>
    /\ UNCHANGED <<calls, runs, weightsDir, partial, fetched, dn>>

\* lines 64-76
MFace ==
    /\ pc = "m_face"
    /\ \E loads \in BOOLEAN :
         LET file == GFPGAN_URL[Len(GFPGAN_URL)]
         IN IF loads
            THEN /\ cache' = cache \cup {file}
                 /\ frame' = [frame EXCEPT
                      !.cached_weights = WeightsPath(GFPGAN_URL),
                      !.face_enhancer = FaceEnhancer(args,
                                           WeightsPath(GFPGAN_URL),
                                           frame.upsampler.eng)]
                 /\ setupLog' = setupLog \o <<"fetch", "face">>
                 /\ pc' = "m_return"
                 /\ UNCHANGED <<stdout, engine, error>>
            ELSE SetupRaises("RuntimeError")
    /\ UNCHANGED <<args, inputKind, entries, hw, exitCode, created, pairs, i,
                   success, failed, trace, written>>
    /\ UNCHANGED <<calls, runs, weightsDir, partial, fetched, dn>>

\* lines 78-84
MReturn ==
    /\ pc = "m_return"
    /\ stdout' = stdout \o <<Line("Model"), Line("Device"), Line("Half")>>
                    \o (IF frame.face_enhancer.bound
                        THEN <<Line("Face enhancement: enabled")>> ELSE <<>>)
    /\ engine' = [built |-> TRUE, upsampler |-> frame.upsampler.eng,
                  face_enhancer |-> frame.face_enhancer,
                  device |-> frame.dev.device]
    /\ pc' = "m_done"
    /\ UNCHANGED <<args, inputKind, entries, hw, exitCode, setupLog, frame,
                   cache, error, created, pairs, i, success, failed, trace,
                   written>>
    /\ UNCHANGED <<calls, runs, weightsDir, partial, fetched, dn>>

-----------------------------------------------------------------------------
(* setup_model of upscale.py, the one main calls *)

UpscaleSelect(a) ==
    IF a.model = "general" /\ a.scale = 4
    THEN [bound |-> TRUE, model_name |-> "RealESRGAN_x4plus",
          num_feat |-> 64, num_block |-> 23, num_grow_ch |-> 32,
          scale |-> 4, netscale |-> 4,
          url |-> <<"Real-ESRGAN", "v0.1.0", "RealESRGAN_x4plus.pth">>]
    ELSE IF a.model = "general" /\ a.scale = 2
    THEN [bound |-> TRUE, model_name |-> "RealESRGAN_x2plus",
          num_feat |-> 64, num_block |-> 23, num_grow_ch |-> 32,
          scale |-> 2, netscale |-> 2,
          url |-> <<"Real-ESRGAN", "v0.2.1", "RealESRGAN_x2plus.pth">>]
    ELSE IF a.model = "anime"
    THEN [bound |-> TRUE, model_name |-> "RealESRGAN_x4plus_anime_6B",
          num_feat |-> 64, num_block |-> 6, num_grow_ch |-> 32,
          scale |-> 4, netscale |-> 4,
          url |-> <<"Real-ESRGAN", "v0.2.2.4",
                    "RealESRGAN_x4plus_anime_6B.pth">>]
    ELSE Unbound

\* lines 75-78: CUDA or CPU; --gpu-id only picks the CUDA index.
UpscaleDevice(a, h) ==
    [use_half |-> h.cuda,
     device |-> IF a.gpu_id # None
                THEN IF h.cuda THEN [type |-> "cuda", index |-> a.gpu_id]
                               ELSE [type |-> "cpu", index |-> None]
                ELSE IF h.cuda THEN [type |-> "cuda", index |-> None]
                               ELSE [type |-> "cpu", index |-> None]]

\* An uncaught exception ends the process with a traceback.
Crash(e) ==
    /\ error' = e
    /\ exitCode' = 1
    /\ pc' = "exit"

\* main line 173: the whole call.  The engines load their checkpoints in
\* their constructors, which may fail.
SetupModel ==
    /\ pc = "setup"
    /\ LET cfg == UpscaleSelect(args)
           dev == UpscaleDevice(args, hw)
       IN IF ~cfg.bound
          THEN /\ Crash("UnboundLocalError")
               /\ setupLog' = setupLog \o <<"select", "device">>
               /\ frame' = [frame EXCEPT !.dev = dev]
               /\ UNCHANGED <<engine, stdout>>
          ELSE \E loads \in BOOLEAN :
                 LET up == Upsampler(cfg, args, dev, cfg.url)
                     face == IF args.face_enhance
                             THEN FaceEnhancer(args, GFPGAN_URL, up)
                             ELSE Unbound
                 IN /\ frame' = [cfg |-> cfg, dev |-> dev,
                                 cached_weights |-> <<>>,
                                 upsampler |-> IF loads
                                               THEN [bound |-> TRUE, eng |-> up]
                                               ELSE Unbound,
                                 face_enhancer |-> IF loads THEN face
                                                   ELSE Unbound]
                    /\ setupLog' = setupLog \o <<"select", "device", "build">>
                                      \o (IF loads /\ args.face_enhance
                                          THEN <<"face">> ELSE <<>>)
                    /\ IF loads
                       THEN /\ engine' = [built |-> TRUE, upsampler |-> up,
                                          face_enhancer |-> face,
                                          device |-> dev.device]
                            /\ stdout' = stdout \o <<Line("Model"),
                                             Line("Device"), Line("Half")>>
                                 \o (IF face.bound
                                     THEN <<Line("Face enhancement: enabled")>>
                                     ELSE <<>>)
                            /\ pc' = "resolve"
                            /\ UNCHANGED <<error, exitCode>>
                       ELSE /\ Crash("RuntimeError")
                            /\ UNCHANGED <<engine, stdout>>
    /\ UNCHANGED <<args, inputKind, entries, hw, cache, created, pairs, i,
                   success, failed, trace, written>>
    /\ UNCHANGED <<calls, runs, weightsDir, partial, fetched, dn>>

-----------------------------------------------------------------------------
(* resolve_paths *)

\* lines 119-123
ResolveFile ==
    /\ pc = "resolve"
    /\ inputKind = "file"
    /\ created' = created \cup Mkdir(Parent(args.output))
    /\ pairs' = FilePairs(args)
    /\ pc' = "found"
    /\ UNCHANGED <<args, inputKind, entries, hw, stdout, exitCode, setupLog,
                   frame, cache, engine, error, i, success, failed, trace,
                   written>>
    /\ UNCHANGED <<calls, runs, weightsDir, partial, fetched, dn>>

\* A resolver that treats a directory without images as an error.
ResolveDirRejectsEmpty ==
    /\ pc = "resolve"
    /\ inputKind = "dir"
    /\ created' = created \cup Mkdir(args.output)
    /\ pairs' = DirPairs(args, entries)
    /\ stdout' = IF pairs' = <<>>
                 THEN Append(stdout, Line("Warning: no image files found"))
                 ELSE stdout
    /\ IF pairs' = <<>>
       THEN /\ pc' = "exit"
            /\ exitCode' = 1
       ELSE /\ pc' = "found"
            /\ UNCHANGED exitCode
    /\ UNCHANGED <<args, inputKind, entries, hw, setupLog, frame,
                   cache, engine, error, i, success, failed, trace, written>>
    /\ UNCHANGED <<calls, runs, weightsDir, partial, fetched, dn>>

\* lines 125-139
ResolveDir ==
    /\ pc = "resolve"
    /\ inputKind = "dir"
    /\ created' = created \cup Mkdir(args.output)
    /\ pairs' = DirPairs(args, entries)
    /\ stdout' = IF pairs' = <<>>
                 THEN Append(stdout, Line("Warning: no image files found"))
                 ELSE stdout
    /\ pc' = "found"
    /\ UNCHANGED <<args, inputKind, entries, hw, exitCode, setupLog, frame,
                   cache, engine, error, i, success, failed, trace, written>>
    /\ UNCHANGED <<calls, runs, weightsDir, partial, fetched, dn>>

-----------------------------------------------------------------------------
(* main *)

\* A main that reports a missing input without stopping.
CheckInputGoesOn ==
    /\ pc = "main"
    /\ stdout' = Append(stdout,
                    IF inputKind = "absent"
                    THEN Line("Error: input path does not exist")
                    ELSE Line("Input"))
    /\ pc' = "setup"
    /\ UNCHANGED <<args, inputKind, entries, hw, exitCode, setupLog, frame,
                   cache, engine, error, created, pairs, i, success, failed,
                   trace, written>>
    /\ UNCHANGED <<calls, runs, weightsDir, partial, fetched, dn>>

\* lines 157-171
CheckInput ==
    /\ pc = "main"
    /\ IF inputKind = "absent"
       THEN /\ stdout' = Append(stdout,
                            Line("Error: input path does not exist"))
            /\ exitCode' = 1
            /\ pc' = "exit"
       ELSE /\ stdout' = Append(stdout, Line("Input"))
            /\ pc' = "setup"
            /\ UNCHANGED exitCode
    /\ UNCHANGED <<args, inputKind, entries, hw, setupLog, frame, cache,
                   engine, error, created, pairs, i, success, failed, trace,
                   written>>
    /\ UNCHANGED <<calls, runs, weightsDir, partial, fetched, dn>>

\* lines 176-180: the count is printed, the counters start at zero and the
\* for loop takes its first item, if there is one.
StartLoop ==
    /\ pc = "found"
    /\ stdout' = Append(stdout, [kind |-> "Found", n |-> Len(pairs)])
    /\ success' = 0
    /\ failed' = 0
    /\ i' = 1
    /\ pc' = IF pairs = <<>> THEN "summary" ELSE "decode"
    /\ UNCHANGED <<args, inputKind, entries, hw, exitCode, setupLog, frame,
                   cache, engine, error, created, pairs, trace, written>>
    /\ UNCHANGED <<calls, runs, weightsDir, partial, fetched, dn>>

\* A handler that names only the error main raises itself.
CaughtValueErrorOnly(e) == e = "ValueError"

\* except Exception (line 200)
Caught(e) == e \in ExceptionClasses

\* The for statement takes the next item or falls through to line 204.
NextItem ==
    IF i < Len(pairs)
    THEN i' = i + 1 /\ pc' = "decode"
    ELSE i' = i /\ pc' = "summary"

\* Item i raises e at a step: lines 200-202 when the handler matches.
ItemRaises(e, how) ==
    /\ trace' = Append(trace, [index |-> i, end |-> how,
                               counted |-> IF Caught(e) THEN "failed"
                                                        ELSE "none"])
    /\ IF Caught(e)
       THEN /\ stdout' = Append(stdout, Line("ERROR"))
            /\ failed' = failed + 1
            /\ NextItem
            /\ UNCHANGED <<error, exitCode>>
       ELSE /\ Crash(e)
            /\ UNCHANGED <<stdout, failed, i>>

\* A loop that sets the engine up again for every item.
DecodeSetsUpAgain ==
    /\ pc = "decode"
    /\ setupLog' = setupLog \o <<"select", "device", "build">>
    /\ \E img \in {"array", "None"} :
         IF img = "None"
         THEN /\ ItemRaises("ValueError", "decode_failed")
         ELSE /\ pc' = "enhance"
              /\ stdout' = Append(stdout, Line("item"))
              /\ UNCHANGED <<trace, failed, i, error, exitCode>>
    /\ UNCHANGED <<args, inputKind, entries, hw, frame, cache,
                   engine, created, pairs, success, written>>
    /\ UNCHANGED <<calls, runs, weightsDir, partial, fetched, dn>>

\* lines 182-187: cv2.imread returns None for a file it cannot parse.
Decode ==
    /\ pc = "decode"
    /\ \E img \in {"array", "None"} :
         IF img = "None"
         THEN /\ ItemRaises("ValueError", "decode_failed")
         ELSE /\ pc' = "enhance"
              /\ stdout' = Append(stdout, Line("item"))
              /\ UNCHANGED <<trace, failed, i, error, exitCode>>
    /\ UNCHANGED <<args, inputKind, entries, hw, setupLog, frame, cache,
                   engine, created, pairs, success, written>>
    /\ UNCHANGED <<calls, runs, weightsDir, partial, fetched, dn>>

\* An enhance step that asks the upsampler for its native scale.
EnhanceCallNativeScale(a, eng) ==
    IF eng.face_enhancer.bound
    THEN [engine |-> "face_enhancer", outscale |-> eng.face_enhancer.upscale,
          tile |-> eng.face_enhancer.bg_upsampler.tile]
    ELSE [engine |-> "upsampler", outscale |-> eng.upsampler.scale,
          tile |-> eng.upsampler.tile]

\* lines 189-194: the engine that is called and what it is called with.
\* The face enhancer scales by the upscale it was built with and upsamples
\* the background with the upsampler it was given; the upsampler tiles by
\* the tile it was built with.
EnhanceCall(a, eng) ==
    IF eng.face_enhancer.bound
    THEN [engine |-> "face_enhancer", outscale |-> eng.face_enhancer.upscale,
          tile |-> eng.face_enhancer.bg_upsampler.tile]
    ELSE [engine |-> "upsampler", outscale |-> a.scale,
          tile |-> eng.upsampler.tile]

\* lines 189-194
Enhance ==
    /\ pc = "enhance"
    /\ calls' = Append(calls, [index |-> i, call |-> EnhanceCall(args, engine)])
    /\ \E ok \in BOOLEAN :
         IF ok
         THEN /\ pc' = "write"
              /\ UNCHANGED <<trace, failed, i, error, exitCode, stdout>>
         ELSE ItemRaises("RuntimeError", "enhance_failed")
    /\ UNCHANGED <<args, inputKind, entries, hw, setupLog, frame, cache,
                   engine, created, pairs, success, written>>
    /\ UNCHANGED <<runs, weightsDir, partial, fetched, dn>>

\* lines 196-199: cv2.imwrite reports an encoder that could not produce
\* the file by returning False, which main does not look at, or raises
\* cv2.error (no encoder for the extension).
Write ==
    /\ pc = "write"
    /\ \E res \in {"True", "False", "raise"} :
         IF res = "raise"
         THEN /\ ItemRaises("cv2.error", "write_raised")
              /\ UNCHANGED <<success, written>>
         ELSE /\ written' = IF res = "True"
                            THEN written \cup {pairs[i][2]} ELSE written
              /\ trace' = Append(trace,
                     [index |-> i,
                      end |-> IF res = "True" THEN "written"
                                              ELSE "write_failed",
                      counted |-> "succeeded"])
              /\ stdout' = Append(stdout, Line("result"))
              /\ success' = success + 1
              /\ NextItem
              /\ UNCHANGED <<failed, error, exitCode>>
    /\ UNCHANGED <<args, inputKind, entries, hw, setupLog, frame, cache,
                   engine, created, pairs>>
    /\ UNCHANGED <<calls, runs, weightsDir, partial, fetched, dn>>

\* A summary that turns failed items into a failing exit status.
SummaryExitsOnFailure ==
    /\ pc = "summary"
    /\ stdout' = Append(stdout, [kind |-> "Done", succeeded |-> success,
                                 failed |-> failed])
    /\ exitCode' = IF failed > 0 THEN 1 ELSE 0
    /\ pc' = "done"
    /\ UNCHANGED <<args, inputKind, entries, hw, setupLog, frame, cache,
                   engine, error, created, pairs, i, success, failed, trace,
                   written>>
    /\ UNCHANGED <<calls, runs, weightsDir, partial, fetched, dn>>

\* line 204, after which main returns and the process ends normally.
Summary ==
    /\ pc = "summary"
    /\ stdout' = Append(stdout, [kind |-> "Done", succeeded |-> success,
                                 failed |-> failed])
    /\ exitCode' = 0
    /\ pc' = "done"
    /\ UNCHANGED <<args, inputKind, entries, hw, setupLog, frame, cache,
                   engine, error, created, pairs, i, success, failed, trace,
                   written>>
    /\ UNCHANGED <<calls, runs, weightsDir, partial, fetched, dn>>

-----------------------------------------------------------------------------
(* fetch_model_weights of utils.py, statement by statement, for several    *)
(* runs that share the weights directory                                   *)

X4_URL == <<"Real-ESRGAN", "v0.1.0", "RealESRGAN_x4plus.pth">>

\* os.path.basename(url)
Basename(url) == url[Len(url)]

FetchFrame == <<args, inputKind, entries, hw, pc, stdout, exitCode, setupLog,
                frame, engine, error, created, pairs, i, success, failed,
                trace, written, calls, dn>>

\* line 14: os.path.exists(weights_dir)
FetchCheckDir(r) ==
    /\ runs[r].pc = "check_dir"
    /\ runs' = [runs EXCEPT ![r].pc = IF weightsDir THEN "check_file"
                                                    ELSE "mkdir"]
    /\ UNCHANGED <<cache, weightsDir, partial, fetched>>
    /\ UNCHANGED FetchFrame

\* line 15: os.mkdir raises FileExistsError on a directory that exists.
FetchMkdir(r) ==
    /\ runs[r].pc = "mkdir"
    /\ IF weightsDir
       THEN /\ runs' = [runs EXCEPT ![r].pc = "raised",
                                    ![r].error = "FileExistsError"]
            /\ UNCHANGED weightsDir
       ELSE /\ weightsDir' = TRUE
            /\ runs' = [runs EXCEPT ![r].pc = "check_file"]
    /\ UNCHANGED <<cache, partial, fetched>>
    /\ UNCHANGED FetchFrame

\* line 18: os.path.exists(weights_filepath)
FetchCheckFile(r) ==
    /\ runs[r].pc = "check_file"
    /\ runs' = [runs EXCEPT ![r].pc = IF Basename(runs[r].url) \in cache
                                      THEN "return" ELSE "retrieve"]
    /\ UNCHANGED <<cache, weightsDir, partial, fetched>>
    /\ UNCHANGED FetchFrame

\* lines 19-20: urlretrieve opens the URL, which may fail, then opens the
\* cache file for writing, which creates it or empties the one there.
FetchRetrieve(r) ==
    /\ runs[r].pc = "retrieve"
    /\ \E reachable \in BOOLEAN :
         LET file == Basename(runs[r].url)
         IN IF reachable
            THEN /\ fetched' = Append(fetched, [file |-> file, by |-> r,
                                                existed |-> file \in cache])
                 /\ cache' = cache \cup {file}
                 /\ partial' = partial \cup {<<file, r>>}
                 /\ runs' = [runs EXCEPT ![r].pc = "write"]
            ELSE /\ runs' = [runs EXCEPT ![r].pc = "raised",
                                         ![r].error = "URLError"]
                 /\ UNCHANGED <<cache, partial, fetched>>
    /\ UNCHANGED weightsDir
    /\ UNCHANGED FetchFrame

\* lines 20-21: the last block is written and the file is closed.
FetchWrite(r) ==
    /\ runs[r].pc = "write"
    /\ partial' = partial \ {<<Basename(runs[r].url), r>>}
    /\ runs' = [runs EXCEPT ![r].pc = "return"]
    /\ UNCHANGED <<cache, weightsDir, fetched>>
    /\ UNCHANGED FetchFrame

\* line 23
FetchReturn(r) ==
    /\ runs[r].pc = "return"
    /\ runs' = [runs EXCEPT ![r].pc = "done",
                            ![r].result = WeightsPath(runs[r].url)]
    /\ UNCHANGED <<cache, weightsDir, partial, fetched>>
    /\ UNCHANGED FetchFrame

-----------------------------------------------------------------------------
(* denoise_image of denoise.py *)

\* An image is its number of array dimensions and its planes; a plane is
\* the channel it holds, its height and width, and the operations its
\* pixels have been through since the image was read.
Plane(chan, h, w) == [chan |-> chan, h |-> h, w |-> w, via |-> <<>>]

GrayImage(h, w) == [ndim |-> 2, planes |-> <<Plane("Y", h, w)>>]
BGRImage(h, w) ==
    [ndim |-> 3, planes |-> <<Plane("B", h, w), Plane("G", h, w),
                              Plane("R", h, w)>>]
BGRAImage(h, w) ==
    [ndim |-> 3, planes |-> <<Plane("B", h, w), Plane("G", h, w),
                              Plane("R", h, w), Plane("A", h, w)>>]

\* img.shape[:2]
Height(img) == img.planes[1].h
Width(img) == img.planes[1].w

Reverse(seq) == [k \in 1..Len(seq) |-> seq[Len(seq) + 1 - k]]

Through(pl, op, h, w) ==
    [chan |-> pl.chan, h |-> h, w |-> w, via |-> Append(pl.via, op)]

\* cv2.cvtColor(img, cv2.COLOR_GRAY2BGR): the plane, three times.
Gray2BGR(img) ==
    LET y == img.planes[1]
    IN [ndim |-> 3,
        planes |-> <<Through(y, "gray2bgr", y.h, y.w),
                     Through(y, "gray2bgr", y.h, y.w),
                     Through(y, "gray2bgr", y.h, y.w)>>]

\* cv2.COLOR_BGR2RGB and cv2.COLOR_RGB2BGR: the planes in reverse order.
SwapRB(img) == [ndim |-> img.ndim, planes |-> Reverse(img.planes)]

\* The processor pads each side up to a multiple of the window size and
\* the network returns every plane enlarged by its upscale factor.
WINDOW == 8
PadUp(n) == ((n + WINDOW - 1) \div WINDOW) * WINDOW

Swin2SR(img, scale) ==
    [ndim |-> 3,
     planes |-> [k \in 1..Len(img.planes) |->
                   Through(img.planes[k], "swin2sr",
                           PadUp(img.planes[k].h) * scale,
                           PadUp(img.planes[k].w) * scale)]]

\* cv2.resize(src, dsize): dsize is (width, height).
Resize(img, dsize) ==
    [ndim |-> img.ndim,
     planes |-> [k \in 1..Len(img.planes) |->
                   Through(img.planes[k], "resize", dsize[2], dsize[1])]]

NoAlpha == [present |-> FALSE]

\* A split that leaves the alpha plane in the image it hands on.
SplitAlphaKeepsPlane(img) ==
    IF Len(img.planes) = 4
    THEN [alpha |-> [present |-> TRUE, plane |-> img.planes[4]],
          img |-> img]
    ELSE [alpha |-> NoAlpha, img |-> img]

\* lines 55-58
SplitAlpha(img) ==
    IF Len(img.planes) = 4
    THEN [alpha |-> [present |-> TRUE, plane |-> img.planes[4]],
          img |-> [ndim |-> 3, planes |-> SubSeq(img.planes, 1, 3)]]
    ELSE [alpha |-> NoAlpha, img |-> img]

\* A resize that passes (height, width).
DownscaleSwapped(img, orig_w, orig_h) == Resize(img, <<orig_h, orig_w>>)

\* line 77
Downscale(img, orig_w, orig_h) == Resize(img, <<orig_w, orig_h>>)

\* A return that forgets the alpha plane.
ReattachDrops(img, alpha) == img

\* lines 79-81: np.dstack([output_bgr, alpha])
Reattach(img, alpha) ==
    IF alpha.present
    THEN [ndim |-> 3, planes |-> Append(img.planes, alpha.plane)]
    ELSE img

DenoiseFrame == <<args, inputKind, entries, hw, pc, stdout, exitCode,
                  setupLog, frame, cache, engine, error, created, pairs, i,
                  success, failed, trace, written, calls, runs, weightsDir,
                  partial, fetched>>

\* lines 48-58
DnNormalize ==
    /\ dn.pc = "normalize"
    /\ LET bgr == IF dn.img.ndim = 2 THEN Gray2BGR(dn.img) ELSE dn.img
           split == SplitAlpha(bgr)
       IN dn' = [pc |-> "infer", img |-> dn.img, scale |-> dn.scale,
                 orig_h |-> Height(dn.img), orig_w |-> Width(dn.img),
                 alpha |-> split.alpha, x |-> split.img]
    /\ UNCHANGED DenoiseFrame

\* lines 60-71: the network is run, and may fail, on the RGB image.
DnInfer ==
    /\ dn.pc = "infer"
    /\ \E ok \in BOOLEAN :
         LET rgb == SwapRB(dn.x)
         IN IF ok
            THEN dn' = [pc |-> "restore", img |-> dn.img, scale |-> dn.scale,
                        orig_h |-> dn.orig_h, orig_w |-> dn.orig_w,
                        alpha |-> dn.alpha, netIn |-> rgb,
                        x |-> Swin2SR(rgb, dn.scale)]
            ELSE dn' = [pc |-> "raised", img |-> dn.img, scale |-> dn.scale,
                        netIn |-> rgb]
    /\ UNCHANGED DenoiseFrame

\* lines 73-83
DnRestore ==
    /\ dn.pc = "restore"
    /\ LET output_bgr == Downscale(SwapRB(dn.x), dn.orig_w, dn.orig_h)
       IN dn' = [pc |-> "done", img |-> dn.img, scale |-> dn.scale,
                 netIn |-> dn.netIn, out |-> Reattach(output_bgr, dn.alpha)]
    /\ UNCHANGED DenoiseFrame

-----------------------------------------------------------------------------
(* Specifications *)

Names == {a_png, b_jpg, c_gif, B_PNG, a_b_bmp, dot_png, ab, d_Jpeg}
MainNames == {a_png, b_jpg, c_gif, B_PNG}

Args(input, output, scale, model, face, tile, gpu, suffix, fmt) ==
    [input |-> input, output |-> output, scale |-> scale, model |-> model,
     face_enhance |-> face, tile |-> tile, gpu_id |-> gpu, suffix |-> suffix,
     format |-> fmt]

\* No run is inside fetch_model_weights and the weights directory is empty.
NoFetch ==
    /\ cache = {}
    /\ runs = <<>>
    /\ weightsDir = FALSE
    /\ partial = {}
    /\ fetched = <<>>

\* denoise_image is not running.
NoDenoise == dn = [pc |-> "idle"]

\* What never depends on the inputs: the state before anything has run.
Fresh ==
    /\ stdout = <<>>
    /\ exitCode = -1
    /\ setupLog = <<>>
    /\ frame = NoFrame
    /\ engine = NoEngine
    /\ error = "none"
    /\ created = {}
    /\ pairs = NoPairs
    /\ i = 0
    /\ success = 0
    /\ failed = 0
    /\ trace = <<>>
    /\ written = {}
    /\ calls = <<>>

\* A run of the command line tool: argparse admits scale 2 or 4, model
\* general or anime, format auto, png or jpg.
Init ==
    /\ Fresh
    /\ NoFetch
    /\ NoDenoise
    /\ pc = "main"
    /\ hw \in [cuda : {FALSE}, mps : {FALSE}]
    /\ inputKind \in {"absent", "file", "dir"}
    /\ entries \in IF inputKind = "dir"
                   THEN {S \in SUBSET MainNames : Cardinality(S) <= MaxEntries}
                   ELSE {{}}
    /\ \E input \in IF inputKind = "dir" THEN {in_dir}
                                          ELSE {Join(in_dir, c_gif)},
          output \in IF inputKind = "dir" THEN {out_dir}
                                           ELSE {Join(out_dir, r_png)},
          scale \in {2, 4}, model \in {"general", "anime"},
          face \in BOOLEAN, gpu \in {None}, fmt \in {auto, jpg},
          tile \in {0, 256} :
         args = Args(input, output, scale, model, face, tile, gpu,
                     DefaultSuffix, fmt)

Next ==
    \/ CheckInput
    \/ SetupModel
    \/ ResolveFile
    \/ ResolveDir
    \/ StartLoop
    \/ Decode
    \/ Enhance
    \/ Write
    \/ Summary

Spec == Init /\ [][Next]_vars

\* The program is one sequential thread: it takes its next step whenever
\* it has one.
FairSpec == Spec /\ WF_vars(Next)

\* resolve_paths called on its own, as the path tests do.
InitPaths ==
    /\ Fresh
    /\ NoFetch
    /\ NoDenoise
    /\ pc = "resolve"
    /\ hw = [cuda |-> FALSE, mps |-> FALSE]
    /\ inputKind \in {"file", "dir"}
    /\ entries \in IF inputKind = "dir"
                   THEN {S \in SUBSET Names : Cardinality(S) <= MaxListing}
                   ELSE {{}}
    /\ \E input \in IF inputKind = "dir" THEN {in_dir}
                     ELSE {Join(in_dir, a_png), Join(in_dir, c_gif),
                           Join(in_dir, ab)},
          output \in IF inputKind = "dir"
                     THEN {out_dir, Join(out_dir, <<"x">>)}
                     ELSE {Join(out_dir, r_png), Join(out_dir, r_bare),
                           Join(out_dir, r_x_bmp), <<r_png>>},
          suffix \in {DefaultSuffix, <<>>, <<"_", "x">>},
          fmt \in {auto, png, jpg} :
         args = Args(input, output, 4, "general", FALSE, 0, None, suffix, fmt)

NextPaths ==
    \/ ResolveFile
    \/ ResolveDir

SpecPaths == InitPaths /\ [][NextPaths]_vars

\* setup_model called on its own: either one, with any Namespace.
InitModel ==
    /\ Fresh
    /\ NoFetch
    /\ NoDenoise
    /\ pc \in {"m_select", "setup"}
    /\ hw \in [cuda : BOOLEAN, mps : BOOLEAN]
    /\ inputKind = "dir"
    /\ entries = {}
    /\ \E scale \in {2, 3, 4}, model \in {"general", "anime", "photo"},
          face \in BOOLEAN, gpu \in {None, 0, 1}, tile \in {0, 256} :
         args = Args(in_dir, out_dir, scale, model, face, tile, gpu,
                     DefaultSuffix, auto)

NextModel ==
    \/ MSelect
    \/ MDevice
    \/ MFetch
    \/ MBuild
    \/ MFace
    \/ MReturn
    \/ SetupModel

SpecModel == InitModel /\ [][NextModel]_vars

\* Several runs enter fetch_model_weights, each with one of two URLs, on a
\* weights directory that is missing, empty or holds some checkpoints.
InitFetch ==
    /\ Fresh
    /\ NoDenoise
    /\ pc = "fetch"
    /\ hw = [cuda |-> FALSE, mps |-> FALSE]
    /\ inputKind = "dir"
    /\ entries = {}
    /\ args = Args(in_dir, out_dir, 4, "general", FALSE, 0, None,
                   DefaultSuffix, auto)
    /\ weightsDir \in BOOLEAN
    /\ cache \in IF weightsDir
                 THEN SUBSET {Basename(X4_URL), Basename(GFPGAN_URL)}
                 ELSE {{}}
    /\ partial = {}
    /\ fetched = <<>>
    /\ runs \in [1..NumRuns -> [pc : {"check_dir"},
                                 url : {X4_URL, GFPGAN_URL},
                                 result : {<<>>}, error : {"none"}]]

NextFetch ==
    \/ \E r \in DOMAIN runs : FetchCheckDir(r)
    \/ \E r \in DOMAIN runs : FetchMkdir(r)
    \/ \E r \in DOMAIN runs : FetchCheckFile(r)
    \/ \E r \in DOMAIN runs : FetchRetrieve(r)
    \/ \E r \in DOMAIN runs : FetchWrite(r)
    \/ \E r \in DOMAIN runs : FetchReturn(r)

SpecFetch == InitFetch /\ [][NextFetch]_vars

\* denoise_image called on a grayscale, BGR or BGRA image of any small
\* size, with a network of upscale factor 1, 2 or 4.
InitDenoise ==
    /\ Fresh
    /\ NoFetch
    /\ pc = "denoise"
    /\ hw = [cuda |-> FALSE, mps |-> FALSE]
    /\ inputKind = "dir"
    /\ entries = {}
    /\ args = Args(in_dir, out_dir, 4, "general", FALSE, 0, None,
                   DefaultSuffix, auto)
    /\ \E h \in 1..MaxDim, w \in 1..MaxDim, scale \in {1, 2, 4} :
         \E img \in {GrayImage(h, w), BGRImage(h, w), BGRAImage(h, w)} :
           dn = [pc |-> "normalize", img |-> img, scale |-> scale]

NextDenoise ==
    \/ DnNormalize
    \/ DnInfer
    \/ DnRestore

SpecDenoise == InitDenoise /\ [][NextDenoise]_vars

-----------------------------------------------------------------------------
(* The batch loop and the exit status *)

Terminated == pc \in {"done", "exit"}
Failures == {k \in 1..Len(trace) : trace[k].end # "written"}
InOrder == \A k \in 1..Len(trace) : trace[k].index = k

\* C1: a failure of item k at decode, enhance or write never keeps the
\* items after it from being attempted.  Once the loop has taken its first
\* item the run reaches the summary with every resolved item attempted, in
\* order, and the process never ends on an exception once an item has been
\* attempted.
C1_ContinueOnError ==
    /\ [](trace # <<>> => pc # "exit" /\ error = "none")
    /\ (pc = "decode" /\ i = 1)
          ~> (pc = "done" /\ Len(trace) = Len(pairs) /\ InOrder)

\* A finished run of three items whose first and second items failed.
C1_Witness ==
    /\ pc = "done"
    /\ Len(pairs) = 3
    /\ Len(trace) = 3
    /\ trace[1].end = "decode_failed"
    /\ trace[2].end = "enhance_failed"

\* C2: when the loop has finished every resolved item was attempted once,
\* in resolved order, succeeded + failed is the number of items, failed is
\* the number of items on which a step failed and succeeded the number on
\* which every step succeeded.
C2_CountersMatchOutcomes ==
    pc = "done" =>
        /\ Len(trace) = Len(pairs)
        /\ InOrder
        /\ success + failed = Len(pairs)
        /\ failed = Cardinality(Failures)
        /\ success = Len(pairs) - Cardinality(Failures)

\* C3: once the input path exists and setup_model has returned, the
\* process never ends with a non-zero status, and it ends with status 0
\* however many items failed.
C3_ExitZero ==
    (inputKind # "absent" /\ engine.built) =>
        /\ exitCode \in {-1, 0}
        /\ pc # "exit"
        /\ pc = "done" => exitCode = 0

\* A finished run in which every one of several items failed.
C3_Witness ==
    /\ pc = "done"
    /\ engine.built
    /\ Len(pairs) >= 2
    /\ failed = Len(pairs)
    /\ exitCode = 0

\* C4: when the input path does not exist main prints the "does not
\* exist" message and exits with status 1 and nothing else has happened:
\* no step of setup_model, no path resolution, no directory created, no
\* item attempted, nothing written.
C4_MissingInput ==
    inputKind = "absent" =>
        /\ pc \in {"main", "exit"}
        /\ setupLog = <<>>
        /\ engine = NoEngine
        /\ pairs = NoPairs
        /\ created = {}
        /\ trace = <<>>
        /\ written = {}
        /\ pc = "exit" =>
              /\ exitCode = 1
              /\ stdout = <<Line("Error: input path does not exist")>>

C4_Witness == inputKind = "absent" /\ pc = "exit" /\ exitCode = 1

-----------------------------------------------------------------------------
(* The resolver, against what each name of the model is known to be *)

\* The names of the model in ascending code point order, written out.
Ascending == <<dot_png, B_PNG, a_b_bmp, a_png, ab, b_jpg, c_gif, d_Jpeg>>
Rank(n) == CHOOSE k \in 1..Len(Ascending) : Ascending[k] = n

\* The names with an allowed extension, each with its stem and extension.
Images ==
    (a_png :> [stem |-> <<"a">>, ext |-> <<".", "p", "n", "g">>]) @@
    (b_jpg :> [stem |-> <<"b">>, ext |-> <<".", "j", "p", "g">>]) @@
    (B_PNG :> [stem |-> <<"B">>, ext |-> <<".", "P", "N", "G">>]) @@
    (a_b_bmp :> [stem |-> <<"a", ".", "b">>, ext |-> <<".", "b", "m", "p">>]) @@
    (d_Jpeg :> [stem |-> <<"d">>, ext |-> <<".", "J", "p", "e", "g">>])

Resolved == pc = "found"

\* C5: in directory mode resolve_paths returns one pair per entry with an
\* allowed extension (compared in lower case) and no other pair, in
\* ascending order of source file name, and the destination of each is
\* output / (stem + suffix + ext), ext being "." + format unless format is
\* auto, and the extension of the source as it is spelled otherwise.
C5_DirectoryPairs ==
    (Resolved /\ inputKind = "dir") =>
        LET kept == entries \cap DOMAIN Images
        IN /\ Len(pairs) = Cardinality(kept)
           /\ {pairs[k][1] : k \in 1..Len(pairs)} =
                {Join(args.input, n) : n \in kept}
           /\ \A j, k \in 1..Len(pairs) :
                j < k => Rank(Name(pairs[j][1])) < Rank(Name(pairs[k][1]))
           /\ \A k \in 1..Len(pairs) :
                LET n == Name(pairs[k][1])
                    ext == IF args.format = auto THEN Images[n].ext
                           ELSE <<".">> \o args.format
                IN pairs[k][2] =
                     Join(args.output, Images[n].stem \o args.suffix \o ext)

\* A listing with an upper-case extension, a two-dot name, a hidden file
\* and a file that is not an image, resolved to two pairs.
C5_Witness ==
    /\ Resolved
    /\ entries = {B_PNG, a_b_bmp, dot_png, c_gif}
    /\ args.format = auto
    /\ Len(pairs) = 2
    /\ Name(pairs[1][2]) = <<"B">> \o DefaultSuffix \o <<".", "P", "N", "G">>

\* The output paths of the model with the extension taken off.
Extensionless ==
    (Join(out_dir, r_png) :> Join(out_dir, <<"r">>)) @@
    (Join(out_dir, r_bare) :> Join(out_dir, <<"r">>)) @@
    (Join(out_dir, r_x_bmp) :> Join(out_dir, <<"r", ".", "x">>)) @@
    (<<r_png>> :> << <<"r">> >>)

\* C6: for a file input resolve_paths returns one pair, its source the
\* input path; its destination is the output path as given when format is
\* auto and the output path with its extension replaced by "." + format
\* otherwise, whatever the extension of the source and whatever the suffix.
C6_SingleFilePair ==
    (Resolved /\ inputKind = "file") =>
        /\ Len(pairs) = 1
        /\ pairs[1][1] = args.input
        /\ pairs[1][2] =
              IF args.format = auto THEN args.output
              ELSE LET bare == Extensionless[args.output]
                   IN Join(Parent(bare),
                           Name(bare) \o <<".">> \o args.format)

\* A gif source with a two-dot bmp output, a suffix and format jpg.
C6_Witness ==
    /\ Resolved
    /\ inputKind = "file"
    /\ args.input = Join(in_dir, c_gif)
    /\ args.output = Join(out_dir, r_x_bmp)
    /\ args.format = jpg
    /\ args.suffix = DefaultSuffix
    /\ pairs[1][2] = Join(out_dir, <<"r", ".", "x", ".", "j", "p", "g">>)

\* C7: when no entry of the input directory has an allowed extension the
\* resolver returns an empty list and the run is a run of no items: no
\* item is attempted, nothing is written, no exception ends the process,
\* and the run ends with the summary 0 succeeded, 0 failed and status 0.
C7_EmptyDirectory ==
    (inputKind = "dir" /\ entries \cap DOMAIN Images = {}) =>
        /\ pc \notin {"decode", "enhance", "write"}
        /\ trace = <<>>
        /\ written = {}
        /\ pairs \in {NoPairs, <<>>}
        /\ pc \in {"found", "summary", "done"} => pairs = <<>>
        /\ engine.built => pc # "exit" /\ error = "none" /\ exitCode # 1
        /\ pc = "done" =>
              /\ stdout[Len(stdout)] =
                    [kind |-> "Done", succeeded |-> 0, failed |-> 0]
              /\ exitCode = 0

\* A finished run over a directory that holds only a gif.
C7_Witness ==
    /\ pc = "done"
    /\ inputKind = "dir"
    /\ entries = {c_gif}
    /\ pairs = <<>>

-----------------------------------------------------------------------------
(* Model and device selection *)

Mapped == args.model \in {"general", "anime"} /\ args.scale \in {2, 4}

\* The network each (family, scale) stands for.
Network ==
    [general |-> [s2 |-> [num_block |-> 23, num_feat |-> 64,
                          num_grow_ch |-> 32, netscale |-> 2],
                  s4 |-> [num_block |-> 23, num_feat |-> 64,
                          num_grow_ch |-> 32, netscale |-> 4]],
     anime   |-> [s2 |-> [num_block |-> 6, num_feat |-> 64,
                          num_grow_ch |-> 32, netscale |-> 4],
                  s4 |-> [num_block |-> 6, num_feat |-> 64,
                          num_grow_ch |-> 32, netscale |-> 4]]]

Wanted == Network[args.model][IF args.scale = 2 THEN "s2" ELSE "s4"]

\* C8: for family general or anime and scale 2 or 4 the selection is bound
\* (the combination is accepted) and is 23 blocks, 64 features, growth 32
\* at native scale 4 for (general, 4), the same at native scale 2 for
\* (general, 2), and 6 blocks at native scale 4 for anime at either scale;
\* the upsampler that is built has that network and that native scale.
C8_NetworkConfiguration ==
    Mapped =>
        /\ error # "UnboundLocalError"
        /\ pc \notin {"m_select", "setup"} =>
              /\ frame.cfg.bound
              /\ frame.cfg.num_block = Wanted.num_block
              /\ frame.cfg.num_feat = Wanted.num_feat
              /\ frame.cfg.num_grow_ch = Wanted.num_grow_ch
              /\ frame.cfg.scale = Wanted.netscale
              /\ frame.cfg.netscale = Wanted.netscale
        /\ engine.built =>
              /\ engine.upsampler.scale = Wanted.netscale
              /\ engine.upsampler.model.num_block = Wanted.num_block
              /\ engine.upsampler.model.num_feat = Wanted.num_feat
              /\ engine.upsampler.model.num_grow_ch = Wanted.num_grow_ch
              /\ engine.upsampler.model.scale = Wanted.netscale

\* models.py has built the anime upsampler for a requested scale of 2.
C8_Witness ==
    /\ pc = "m_done"
    /\ args.model = "anime"
    /\ args.scale = 2
    /\ engine.built
    /\ engine.upsampler.scale = 4
    /\ engine.upsampler.model.num_block = 6

InModels == pc \in {"m_select", "m_device", "m_fetch", "m_build", "m_face",
                    "m_return", "m_done", "m_raised"}

\* C9: when (family, scale) has no mapping setup_model of models.py fails
\* with ModelConfigError, and no device has been selected, no weight
\* fetched and no engine built by then.
C9_ModelConfigError ==
    (InModels /\ ~Mapped) =>
        /\ pc \notin {"m_build", "m_face", "m_return", "m_done"}
        /\ pc = "m_raised" =>
              /\ error = "ModelConfigError"
              /\ setupLog \in {<<>>, <<"select">>}
              /\ frame.dev = Unbound
              /\ cache = {}
              /\ engine = NoEngine

\* C10: setup_model of models.py selects CUDA when it is available, with
\* the index of --gpu-id when one is given, else MPS when it is available,
\* else the CPU, and half precision is on exactly on CUDA; the upsampler is
\* built on that device with that precision.
C10_DeviceLadder ==
    (InModels /\ pc \notin {"m_select", "m_device"}) =>
        LET d == frame.dev.device
        IN /\ hw.cuda => d = [type |-> "cuda", index |-> args.gpu_id]
           /\ (~hw.cuda /\ hw.mps) => d = [type |-> "mps", index |-> None]
           /\ (~hw.cuda /\ ~hw.mps) => d = [type |-> "cpu", index |-> None]
           /\ frame.dev.use_half <=> d.type = "cuda"
           /\ engine.built =>
                /\ engine.device = d
                /\ engine.upsampler.device = d
                /\ engine.upsampler.half <=> d.type = "cuda"

\* An upsampler built on MPS in full precision although --gpu-id was given.
C10_Witness ==
    /\ pc = "m_done"
    /\ ~hw.cuda
    /\ hw.mps
    /\ args.gpu_id = 1
    /\ engine.device.type = "mps"
    /\ ~engine.upsampler.half

-----------------------------------------------------------------------------
(* The weights cache *)

\* C11: whatever the interleaving of the runs, no download is started for
\* a cache file that is already there (so none is downloaded again or
\* overwritten), no run fails on a directory or file that already exists,
\* and the runs that fetched the same URL were returned the same path.
C11_FetchOnce ==
    /\ \A k \in 1..Len(fetched) : ~fetched[k].existed
    /\ \A r \in DOMAIN runs : runs[r].error # "FileExistsError"
    /\ \A r, q \in DOMAIN runs :
         (runs[r].pc = "done" /\ runs[q].pc = "done"
            /\ runs[r].url = runs[q].url) => runs[r].result = runs[q].result

-----------------------------------------------------------------------------
(* The denoising pre-pass *)

\* The channel count of an image: 1 for a two-dimensional array.
Channels(img) == IF img.ndim = 2 THEN 1 ELSE Len(img.planes)

Denoised == dn.pc = "done"

\* C12 as stated: the returned buffer has the channel count of the input,
\* for 1, 3 and 4 channels.
C12_SameChannelCount ==
    Denoised => Channels(dn.out) = Channels(dn.img)

\* C12, amended: the returned buffer has the channel count of the input
\* for 3 and 4 channels, and 3 channels for a single-channel input.
C12_ChannelCount ==
    Denoised =>
        /\ Channels(dn.img) \in {3, 4} => Channels(dn.out) = Channels(dn.img)
        /\ Channels(dn.img) = 1 => Channels(dn.out) = 3
        /\ dn.out.ndim = 3

\* A grayscale input returned as three channels.
C12_Witness ==
    /\ Denoised
    /\ Channels(dn.img) = 1
    /\ Channels(dn.out) = 3

\* C13: the returned buffer has the width and the height of the input, in
\* every plane, for 1, 3 and 4 channels and whatever factor the network
\* enlarges by.
C13_SameDimensions ==
    Denoised =>
        \A k \in 1..Len(dn.out.planes) :
            /\ dn.out.planes[k].h = Height(dn.img)
            /\ dn.out.planes[k].w = Width(dn.img)

\* A 2 x 3 input that the network returned as 32 x 32 is 2 x 3 again.
C13_Witness ==
    /\ Denoised
    /\ Height(dn.img) = 2
    /\ Width(dn.img) = 3
    /\ dn.scale = 4
    /\ Height(dn.out) = 2
    /\ Width(dn.out) = 3

\* C14: for a four-channel input the network is given the first three
\* planes and nothing else, and the fourth plane of the result is the
\* alpha plane of the input, untouched: nothing has been done to its
\* pixels and it has not been resized.
C14_AlphaPreserved ==
    Channels(dn.img) = 4 =>
        /\ dn.pc \in {"restore", "raised", "done"} =>
              /\ Len(dn.netIn.planes) = 3
              /\ {dn.netIn.planes[k] : k \in 1..3} =
                   {dn.img.planes[k] : k \in 1..3}
              /\ \A k \in 1..Len(dn.netIn.planes) :
                   dn.netIn.planes[k].chan # "A"
        /\ Denoised =>
              /\ Len(dn.out.planes) = 4
              /\ dn.out.planes[4] = dn.img.planes[4]
              /\ dn.out.planes[4].via = <<>>
              /\ \A k \in 1..3 : dn.out.planes[k].chan # "A"

\* A finished four-channel call whose result ends in the input's alpha.
C14_Witness ==
    /\ Denoised
    /\ Channels(dn.img) = 4
    /\ dn.scale = 4
    /\ dn.out.planes[4] = Plane("A", Height(dn.img), Width(dn.img))

-----------------------------------------------------------------------------
(* The life of an item, the place of setup, and the engine that is called *)

InLoop == pc \in {"decode", "enhance", "write"}

\* C15: an item is counted as succeeded only if its decode, its enhance
\* and its write all completed, the destination having been produced; an
\* item whose decode, enhance or write failed is counted as failed; and an
\* item is enhanced before it is written.
C15_SucceededOnlyIfWritten ==
    /\ \A k \in 1..Len(trace) :
         /\ trace[k].counted = "succeeded" => trace[k].end = "written"
         /\ trace[k].end # "written" => trace[k].counted = "failed"
    /\ pc = "write" => (calls # <<>> /\ calls[Len(calls)].index = i)

Count(log, step) == Cardinality({k \in 1..Len(log) : log[k] = step})

SetupDoneOnce ==
    /\ Count(setupLog, "select") = 1
    /\ Count(setupLog, "device") = 1
    /\ Count(setupLog, "build") = 1
    /\ Count(setupLog, "face") = IF args.face_enhance THEN 1 ELSE 0

\* C16: setup (selection, device, engine construction) happens at most
\* once in a run; it has happened, once and successfully, before paths are
\* resolved and before any item is decoded; no step of the loop sets
\* anything up; and when setup fails the process ends with status 1
\* without having resolved, decoded, enhanced or written anything.
C16_SetupOnceBeforeItems ==
    /\ [](/\ Count(setupLog, "select") <= 1
          /\ Count(setupLog, "build") <= 1
          /\ (pairs # NoPairs \/ InLoop \/ trace # <<>>) =>
                (engine.built /\ SetupDoneOnce)
          /\ (setupLog # <<>> /\ ~engine.built) =>
                /\ pc = "exit"
                /\ exitCode = 1
                /\ pairs = NoPairs
                /\ created = {}
                /\ trace = <<>>
                /\ calls = <<>>
                /\ written = {})
    /\ [][(InLoop \/ pc \in {"resolve", "found", "summary"}) =>
            (setupLog' = setupLog /\ engine' = engine)]_vars

\* A finished run of several items after one setup with face enhancement.
C16_Witness ==
    /\ pc = "done"
    /\ Len(trace) >= 2
    /\ args.face_enhance
    /\ setupLog = <<"select", "device", "build", "face">>

\* C17: every item that was decoded has exactly one engine call and an
\* item that was not has none; the call goes to the face enhancer when
\* --face-enhance was given and to the upsampler otherwise, then with
\* outscale equal to --scale and the tile size of --tile; so the engine is
\* the same for every item of the run.
C17_OneEnginePerItem ==
    /\ \A k \in 1..Len(calls) :
         /\ calls[k].call.engine =
               IF args.face_enhance THEN "face_enhancer" ELSE "upsampler"
         /\ ~args.face_enhance =>
               /\ calls[k].call.outscale = args.scale
               /\ calls[k].call.tile = args.tile
    /\ \A j, k \in 1..Len(calls) : j < k => calls[j].index < calls[k].index
    /\ \A k \in 1..Len(trace) :
         Cardinality({c \in 1..Len(calls) : calls[c].index = trace[k].index}) =
            IF trace[k].end = "decode_failed" THEN 0 ELSE 1

\* Two items upsampled by the anime network at a requested scale of 2 with
\* tiles of 256.
C17_Witness ==
    /\ pc = "done"
    /\ Len(calls) >= 2
    /\ ~args.face_enhance
    /\ args.model = "anime"
    /\ args.scale = 2
    /\ args.tile = 256
    /\ calls[2].call = [engine |-> "upsampler", outscale |-> 2, tile |-> 256]

====
